---- MODULE Spec2Model ----
(***************************************************************************)
(* Model of the radio-station browser client (React component App):        *)
(* catalog fetch, debounced search with local fallback, and the playback   *)
(* session driving a single <audio> element.                               *)
(*                                                                         *)
(* Text values are sequences of one-character strings, so that trim,       *)
(* toLowerCase, includes and the frequency regular expression are          *)
(* computed as the code computes them.  Volume levels are hundredths       *)
(* (0.7 is 70).                                                            *)
(***************************************************************************)
EXTENDS Integers, Sequences, FiniteSets, TLC

\* ------------------------------------------------------------------ bounds
\* calls of performSearch in one run
MaxSearches == 2
\* changes of the search input in one run
MaxKeystrokes == 3
\* clicks on a station's play button in one run
MaxSelects == 3

\* ------------------------------------------------------------------ text
UpperChars == <<"A","B","C","D","E","F","G","H","I","J","K","L","M",
                "N","O","P","Q","R","S","T","U","V","W","X","Y","Z">>
LowerChars == <<"a","b","c","d","e","f","g","h","i","j","k","l","m",
                "n","o","p","q","r","s","t","u","v","w","x","y","z">>
DigitChars == <<"0","1","2","3","4","5","6","7","8","9">>
SpaceChars == {" "}

Range(s) == { s[i] : i \in DOMAIN s }

IsDigit(c) == c \in Range(DigitChars)

DigitValue(c) == (CHOOSE i \in DOMAIN DigitChars : DigitChars[i] = c) - 1

\* String.prototype.toLowerCase
LowerChar(c) ==
  IF c \in Range(UpperChars)
    THEN LowerChars[CHOOSE i \in DOMAIN UpperChars : UpperChars[i] = c]
    ELSE c

ToLowerCase(s) == [i \in DOMAIN s |-> LowerChar(s[i])]

\* String.prototype.includes
Includes(s, t) ==
  \E i \in 0..(Len(s) - Len(t)) :
    \A j \in 1..Len(t) : s[i + j] = t[j]

\* String.prototype.trim
Trim(s) ==
  LET keep == { i \in DOMAIN s : s[i] \notin SpaceChars }
  IN  IF keep = {} THEN <<>>
      ELSE LET lo == CHOOSE i \in keep : \A j \in keep : i <= j
               hi == CHOOSE i \in keep : \A j \in keep : j <= i
           IN  SubSeq(s, lo, hi)

\* truthiness of searchTerm.trim() (a string is truthy iff non-empty)
IsBlank(s) == Trim(s) = <<>>

\* ------------------------------------------------------------------ data
StationA == [uuid |-> "A",
             name |-> <<"H","i","t"," ","9","2",".","3">>,
             country |-> <<"U","S","A">>,
             tags |-> <<"p","o","p">>,
             url |-> <<"h",":","/","a">>]
StationB == [uuid |-> "B",
             name |-> <<"S","m","o","o","t","h">>,
             country |-> <<"I","n","d","i","a">>,
             tags |-> <<"J","a","z","z">>,
             url |-> <<"h",":","/","b">>]
StationC == [uuid |-> "C",
             name |-> <<"N","e","w","s"," ","1">>,
             country |-> <<"J","a","z","z","l","a","n","d">>,
             tags |-> <<>>,
             url |-> <<"h",":","/","c">>]

\* what GET /api/stations/clean answers
CatalogData == <<StationA, StationB>>

\* what GET /api/stations/search may answer
ServerResults == { <<>>, <<StationB>>, <<StationC, StationA>> }

QueryEmpty == <<>>
QuerySpace == <<" ">>
QueryJazz  == <<"j","a","Z","Z">>
QueryFreq  == <<"9","2",".","3"," ","F","M">>

\* what the user may put in the search input
Queries == { QueryEmpty, QuerySpace, QueryJazz, QueryFreq }

\* ------------------------------------------------------------------ search: pure parts
\* the predicate of the catch-branch filter of performSearch
MatchesFallback(station, query) ==
  \/ Includes(ToLowerCase(station.name), ToLowerCase(query))
  \/ Includes(ToLowerCase(station.country), ToLowerCase(query))
  \/ (station.tags # <<>> /\ Includes(ToLowerCase(station.tags), ToLowerCase(query)))

\* allStations.filter(...) in the catch branch of performSearch
LocalFilter(all, query) ==
  SelectSeq(all, LAMBDA st : MatchesFallback(st, query))

\* first index >= p of s that holds no digit (Len(s) + 1 if none): the greedy \d*
RECURSIVE DigitRunEnd(_, _)
DigitRunEnd(s, p) ==
  IF p <= Len(s) /\ IsDigit(s[p]) THEN DigitRunEnd(s, p + 1) ELSE p

NoMatch == <<"null">>

\* searchTerm.match(/(\d{2,3}\.?\d*)\s*(fm|am|khz|mhz)?/i)[1], or NoMatch for null.
\* Everything after \d{2,3} is optional, so the match starts at the leftmost
\* pair of digits and group 1 is taken greedily.
FrequencyOf(s) ==
  LET starts == { i \in 1..(Len(s) - 1) : IsDigit(s[i]) /\ IsDigit(s[i + 1]) }
  IN  IF starts = {} THEN NoMatch
      ELSE LET i  == CHOOSE k \in starts : \A m \in starts : k <= m
               p1 == IF i + 2 <= Len(s) /\ IsDigit(s[i + 2]) THEN i + 3 ELSE i + 2
               p2 == IF p1 <= Len(s) /\ s[p1] = "." THEN p1 + 1 ELSE p1
               p3 == DigitRunEnd(s, p2)
           IN  SubSeq(s, i, p3 - 1)

\* the predicate of the render-time filter of the earlier draft
MatchesFrequencyFilter(station, term) ==
  LET searchLower    == ToLowerCase(term)
      stationName    == ToLowerCase(station.name)
      stationCountry == ToLowerCase(station.country)
      stationTags    == ToLowerCase(station.tags)
      frequency      == FrequencyOf(term)
  IN  IF frequency # NoMatch
        THEN Includes(stationName, frequency)
        ELSE \/ Includes(stationName, searchLower)
             \/ Includes(stationCountry, searchLower)
             \/ Includes(stationTags, searchLower)

\* const filteredStations = stations.filter(...) of the earlier draft
filteredStations(list, term) ==
  SelectSeq(list, LAMBDA st : MatchesFrequencyFilter(st, term))

\* ------------------------------------------------------------------ state
VARIABLES
  \* useState values of App
  stations, allStations, currentStation, isPlaying, isLoading,
  volume, isMuted, searchTerm, isSearching,
  \* the <audio> element behind audioRef
  audio,
  \* play() promises: the one still pending, and the settled ones whose
  \* continuation in playStation has not run yet
  playPending, playSettled,
  \* the startup fetch: "pending", "done" or "failed"
  fetchState,
  \* pending setTimeout callbacks, and the id the effect's cleanup holds
  timers, timeoutId,
  \* search requests in flight, each with the closure of its performSearch call
  requests,
  \* counters that bound a run
  issued, typedCount, selects,
  \* history (read by no action): the last event handled; the texts typed in
  \* the current burst and the requests issued for it; whether the catalog
  \* arrived after the burst was evaluated; the timers cleared while pending;
  \* what each request displayed;
  \* the audio calls made by the last playStation; the stations clicked;
  \* the level last stored and the mute toggles since (the trail restarts
  \* at the third toggle)
  lastEvent, burstLen, lastTyped, evals, reArmed, cancelled, resLog,
  audioOps, selLog, volTrail

searchVars == <<stations, allStations, isLoading, searchTerm, isSearching,
                fetchState, timers, timeoutId, requests, issued, typedCount,
                burstLen, lastTyped, evals, reArmed, cancelled, resLog>>

playVars == <<currentStation, isPlaying, volume, isMuted, audio,
              playPending, playSettled, selects,
              audioOps, selLog, volTrail>>

vars == <<searchVars, playVars, lastEvent>>

\* currentStation === null
NoStation == [uuid |-> "null", name |-> <<>>, country |-> <<>>,
              tags |-> <<>>, url |-> <<>>]

NoTimer == [armed |-> FALSE, query |-> <<>>, all |-> <<>>]

Event(op, call) == [op |-> op, call |-> call]

\* ------------------------------------------------------------------ search: effects and handlers
\* a cleanup that clears nothing
ClearTimeoutNoop(pending, id) == pending

\* clearTimeout(id)
ClearTimeout(pending, id) == pending \ {id}

\* the effect with an else branch that leaves the displayed list alone
SearchEffectNoReset(term, all, shown) ==
  LET cleared == timers \ {timeoutId}
      timer   == [armed |-> TRUE, query |-> term, all |-> all]
  IN  IF ~IsBlank(term)
        THEN /\ timers' = cleared \cup {timer}
             /\ timeoutId' = timer
             /\ stations' = shown
             /\ isSearching' = isSearching
        ELSE /\ timers' = cleared
             /\ timeoutId' = NoTimer
             /\ stations' = shown
             /\ isSearching' = FALSE

\* The effect on [searchTerm, allStations]: the previous run's cleanup, then
\* the body with this render's term and catalog. shown is the value of
\* stations the handler itself has set before the effect runs.
SearchEffect(term, all, shown) ==
  LET cleared == ClearTimeout(timers, timeoutId)
      timer   == [armed |-> TRUE, query |-> term, all |-> all]
  IN  IF ~IsBlank(term)
        THEN /\ timers' = cleared \cup {timer}
             /\ timeoutId' = timer
             /\ stations' = shown
             /\ isSearching' = isSearching
        ELSE /\ timers' = cleared
             /\ timeoutId' = NoTimer
             /\ stations' = all
             /\ isSearching' = FALSE

\* onChange of the search input: setSearchTerm(e.target.value), then the effect
SetSearchTerm(q) ==
  /\ typedCount < MaxKeystrokes
  /\ q # searchTerm
  /\ searchTerm' = q
  /\ SearchEffect(q, allStations, stations)
  /\ typedCount' = typedCount + 1
  /\ lastTyped' = q
  /\ IF IsBlank(q)
       THEN burstLen' = 0 /\ evals' = <<>>
       ELSE IF timers # {} /\ evals = <<>> /\ burstLen > 0
              THEN burstLen' = burstLen + 1 /\ evals' = evals
              ELSE burstLen' = 1 /\ evals' = <<>>
  /\ reArmed' = FALSE
  /\ cancelled' = cancelled + Cardinality(timers \cap {timeoutId})
  /\ lastEvent' = Event("setQuery", 0)
  /\ UNCHANGED <<allStations, isLoading, fetchState, requests, issued, resLog>>
  /\ UNCHANGED playVars

\* the setTimeout callback: performSearch(searchTerm) up to its await
TimerFires(t) ==
  /\ t \in timers
  /\ issued < MaxSearches
  /\ timers' = timers \ {t}
  /\ isSearching' = TRUE
  /\ issued' = issued + 1
  /\ requests' = requests \cup {[call |-> issued + 1, query |-> t.query, all |-> t.all]}
  /\ evals' = Append(evals, t.query)
  /\ resLog' = Append(resLog, [query |-> t.query, all |-> t.all, done |-> FALSE,
                              data |-> <<>>])
  /\ lastEvent' = Event("timer", issued + 1)
  /\ UNCHANGED <<stations, allStations, isLoading, searchTerm, fetchState,
                 timeoutId, typedCount, burstLen, lastTyped, reArmed, cancelled>>
  /\ UNCHANGED playVars

\* a result appended to what is displayed
SearchResultMerged(r, data) == stations \o data

\* what performSearch displays when the request is answered with data
SearchResult(r, data) == data

\* a response handler that stores the result as the catalog too
SearchRespondsStoresCatalog(r, data) ==
  /\ r \in requests
  /\ requests' = requests \ {r}
  /\ stations' = SearchResult(r, data)
  /\ allStations' = data
  /\ isSearching' = FALSE
  /\ resLog' = [resLog EXCEPT ![r.call].done = TRUE, ![r.call].data = data]
  /\ lastEvent' = Event("searchResponse", r.call)
  /\ UNCHANGED <<isLoading, searchTerm, fetchState, timers, timeoutId,
                 issued, typedCount, burstLen, lastTyped, evals, reArmed,
                 cancelled>>
  /\ UNCHANGED playVars

\* performSearch after its await, the request answered: setStations(data)
SearchResponds(r, data) ==
  /\ r \in requests
  /\ requests' = requests \ {r}
  /\ stations' = SearchResult(r, data)
  /\ isSearching' = FALSE
  /\ resLog' = [resLog EXCEPT ![r.call].done = TRUE, ![r.call].data = data]
  /\ lastEvent' = Event("searchResponse", r.call)
  /\ UNCHANGED <<allStations, isLoading, searchTerm, fetchState, timers, timeoutId,
                 issued, typedCount, burstLen, lastTyped, evals, reArmed,
                 cancelled>>
  /\ UNCHANGED playVars

\* what the catch branch of performSearch displays: the filter runs over the
\* allStations of the render whose performSearch was called
SearchFallback(r) == LocalFilter(r.all, r.query)

\* a catch branch that never reaches setIsSearching(false)
SearchFailsKeepsSearching(r) ==
  /\ r \in requests
  /\ requests' = requests \ {r}
  /\ stations' = SearchFallback(r)
  /\ isSearching' = isSearching
  /\ resLog' = [resLog EXCEPT ![r.call].done = TRUE,
                            ![r.call].data = SearchFallback(r)]
  /\ lastEvent' = Event("searchFailure", r.call)
  /\ UNCHANGED <<allStations, isLoading, searchTerm, fetchState, timers, timeoutId,
                 issued, typedCount, burstLen, lastTyped, evals, reArmed,
                 cancelled>>
  /\ UNCHANGED playVars

\* performSearch after its await, fetch or json() having thrown
SearchFails(r) ==
  /\ r \in requests
  /\ requests' = requests \ {r}
  /\ stations' = SearchFallback(r)
  /\ isSearching' = FALSE
  /\ resLog' = [resLog EXCEPT ![r.call].done = TRUE,
                            ![r.call].data = SearchFallback(r)]
  /\ lastEvent' = Event("searchFailure", r.call)
  /\ UNCHANGED <<allStations, isLoading, searchTerm, fetchState, timers, timeoutId,
                 issued, typedCount, burstLen, lastTyped, evals, reArmed,
                 cancelled>>
  /\ UNCHANGED playVars

\* fetchStations after its await, the catalog answered; allStations changed,
\* so the search effect runs again
FetchStationsDone ==
  /\ fetchState = "pending"
  /\ fetchState' = "done"
  /\ allStations' = CatalogData
  /\ isLoading' = FALSE
  /\ SearchEffect(searchTerm, CatalogData, CatalogData)
  /\ reArmed' = (~IsBlank(searchTerm) /\ evals # <<>>)
  /\ cancelled' = cancelled + Cardinality(timers \cap {timeoutId})
  /\ lastEvent' = Event("catalog", 0)
  /\ UNCHANGED <<searchTerm, requests, issued, typedCount, burstLen, lastTyped,
                 evals, resLog>>
  /\ UNCHANGED playVars

\* a catch branch that leaves the loading phase on
FetchFailsKeepsLoading ==
  /\ fetchState = "pending"
  /\ fetchState' = "failed"
  /\ isLoading' = isLoading
  /\ lastEvent' = Event("catalogFailure", 0)
  /\ UNCHANGED <<stations, allStations, searchTerm, isSearching, timers, timeoutId,
                 requests, issued, typedCount, burstLen, lastTyped, evals, reArmed,
                 cancelled, resLog>>
  /\ UNCHANGED <<currentStation, isPlaying, volume, isMuted, audio,
                 playPending, playSettled, selects, audioOps, selLog, volTrail>>

\* fetchStations after its await, fetch or json() having thrown
FetchStationsFails ==
  /\ fetchState = "pending"
  /\ fetchState' = "failed"
  /\ isLoading' = FALSE
  /\ lastEvent' = Event("catalogFailure", 0)
  /\ UNCHANGED <<stations, allStations, searchTerm, isSearching, timers, timeoutId,
                 requests, issued, typedCount, burstLen, lastTyped, evals, reArmed,
                 cancelled, resLog>>
  /\ UNCHANGED playVars

\* ------------------------------------------------------------------ playback: pure parts
\* encodeURIComponent, one element per output character or %XX escape
EncodeChar(c) ==
  CASE c = ":" -> "%3A"
    [] c = "/" -> "%2F"
    [] c = " " -> "%20"
    [] OTHER   -> c

EncodeURIComponent(s) == [i \in DOMAIN s |-> EncodeChar(s[i])]

\* the station's own stream URL used as the source, with no proxy
ProxyUrlDirect(url) == url

\* `${backendUrl}/api/stream/${encodeURIComponent(station.url)}`
ProxyUrl(url) == <<"http://localhost:8001", "/api/stream/">> \o EncodeURIComponent(url)

RECURSIVE DigitsValue(_)
DigitsValue(ds) ==
  IF ds = <<>> THEN 0
  ELSE 10 * DigitsValue(SubSeq(ds, 1, Len(ds) - 1)) + DigitValue(ds[Len(ds)])

\* parseFloat of a slider value (digits, optionally "." and at most two
\* digits, the slider's step being 0.05), in hundredths
ParseFloat(s) ==
  LET dots == { i \in DOMAIN s : s[i] = "." }
      dot  == IF dots = {} THEN Len(s) + 1 ELSE CHOOSE i \in dots : TRUE
      int  == DigitsValue(SubSeq(s, 1, dot - 1))
      frac == SubSeq(s, dot + 1, Len(s))
  IN  100 * int
        + (IF Len(frac) >= 1 THEN 10 * DigitValue(frac[1]) ELSE 0)
        + (IF Len(frac) >= 2 THEN DigitValue(frac[2]) ELSE 0)

\* values the volume slider (min 0, max 1, step 0.05) may report
SliderValues == { <<"0">>, <<"0",".","4">>, <<"1">> }

\* ------------------------------------------------------------------ the <audio> element
\* The element with its pending play() promise, the promises settled but not
\* yet continued, and the calls made on it by the running handler.
Player == [a |-> audio, pending |-> playPending, settled |-> playSettled, ops |-> <<>>]

\* the element is producing, or about to produce, sound
Active(a) == ~a.paused /\ a.phase \in {"loading", "ready"}

Logged(m, op) == Append(m.ops, [op |-> op, active |-> Active(m.a)])

\* HTMLMediaElement.pause(): pending play() promises are rejected (AbortError)
Pause(m) ==
  IF m.a.paused
    THEN [m EXCEPT !.ops = Logged(m, "pause")]
    ELSE [m EXCEPT !.a.paused = TRUE,
                   !.pending = FALSE,
                   !.settled = IF m.pending THEN Append(@, "rejected") ELSE @,
                   !.ops = Logged(m, "pause")]

\* assignment to src: the load algorithm aborts what was loaded or playing
SetSrc(m, url) ==
  [m EXCEPT !.a.src = url,
            !.a.phase = "loading",
            !.a.paused = TRUE,
            !.pending = FALSE,
            !.settled = IF m.pending THEN Append(@, "rejected") ELSE @,
            !.ops = Logged(m, "src")]

\* assignment to volume
SetVolume(m, level) == [m EXCEPT !.a.volume = level, !.ops = Logged(m, "volume")]

\* HTMLMediaElement.play(): the promise is pending until data can be played
Play(m) ==
  IF m.a.phase = "ready"
    THEN [m EXCEPT !.a.paused = FALSE,
                   !.settled = Append(@, "resolved"),
                   !.ops = Logged(m, "play")]
    ELSE [m EXCEPT !.a.paused = FALSE,
                   !.pending = TRUE,
                   !.ops = Logged(m, "play")]

\* ------------------------------------------------------------------ playback: handlers
\* currentStation?.uuid === station.uuid && isPlaying
IsPauseRequest(station) == currentStation.uuid = station.uuid /\ isPlaying

\* the audio calls of the pause branch of playStation
ReleaseSequence(m) == Pause(m)

\* the try block without its pause(): the source is replaced under a
\* running element
AcquireWithoutPause(m, station, level) ==
  Play(SetVolume(SetSrc(m, ProxyUrl(station.url)), level))

\* the audio calls of the try block of playStation
AcquireSequence(m, station, level) ==
  Play(SetVolume(SetSrc(Pause(m), ProxyUrl(station.url)), level))

\* a level applied without regard to the mute flag
AppliedLevelIgnoresMute(muted, level) == level

\* isMuted ? 0 : volume
AppliedLevel(muted, level) == IF muted THEN 0 ELSE level

\* onClick of a station's play button: playStation(station) up to its await.
\* The button exists for the stations displayed once loading has ended.
PlayStation(station) ==
  /\ selects < MaxSelects
  /\ ~isLoading
  /\ station \in Range(stations)
  /\ LET m == IF IsPauseRequest(station)
                THEN ReleaseSequence(Player)
                ELSE AcquireSequence(Player, station, AppliedLevel(isMuted, volume))
     IN  /\ audio' = m.a
         /\ playPending' = m.pending
         /\ playSettled' = m.settled
         /\ audioOps' = m.ops
  /\ IF IsPauseRequest(station)
       THEN isPlaying' = FALSE /\ currentStation' = currentStation
       ELSE isPlaying' = TRUE /\ currentStation' = station
  /\ selects' = selects + 1
  /\ selLog' = Append(selLog, station.uuid)
  /\ lastEvent' = Event("select", 0)
  /\ UNCHANGED <<volume, isMuted, volTrail>>
  /\ UNCHANGED searchVars

\* playStation after its await: nothing when play() resolved, the catch
\* branch (setIsPlaying(false)) when it rejected
PlayContinues ==
  /\ playSettled # <<>>
  /\ playSettled' = Tail(playSettled)
  /\ isPlaying' = IF Head(playSettled) = "rejected" THEN FALSE ELSE isPlaying
  /\ lastEvent' = Event(IF Head(playSettled) = "rejected" THEN "playRejected"
                        ELSE "playResolved", 0)
  /\ UNCHANGED <<currentStation, volume, isMuted, audio, playPending, selects,
                 audioOps, selLog, volTrail>>
  /\ UNCHANGED searchVars

\* the element has data to play: a pending play() promise resolves
AudioCanPlay ==
  /\ audio.phase = "loading"
  /\ ~audio.paused
  /\ audio' = [audio EXCEPT !.phase = "ready"]
  /\ playPending' = FALSE
  /\ playSettled' = IF playPending THEN Append(playSettled, "resolved") ELSE playSettled
  /\ lastEvent' = Event("canplay", 0)
  /\ UNCHANGED <<currentStation, isPlaying, volume, isMuted, selects,
                 audioOps, selLog, volTrail>>
  /\ UNCHANGED searchVars

\* onError of the element: setIsPlaying(false); a pending play() promise rejects
AudioError ==
  /\ audio.phase \in {"loading", "ready"}
  /\ audio' = [audio EXCEPT !.phase = "error"]
  /\ playPending' = FALSE
  /\ playSettled' = IF playPending THEN Append(playSettled, "rejected") ELSE playSettled
  /\ isPlaying' = FALSE
  /\ lastEvent' = Event("outputError", 0)
  /\ UNCHANGED <<currentStation, volume, isMuted, selects, audioOps, selLog, volTrail>>
  /\ UNCHANGED searchVars

\* onEnded of the element: setIsPlaying(false)
AudioEnded ==
  /\ audio.phase = "ready"
  /\ ~audio.paused
  /\ audio' = [audio EXCEPT !.phase = "ended"]
  /\ isPlaying' = FALSE
  /\ lastEvent' = Event("outputEnded", 0)
  /\ UNCHANGED <<currentStation, volume, isMuted, playPending, playSettled, selects,
                 audioOps, selLog, volTrail>>
  /\ UNCHANGED searchVars

\* an unmute that restores full volume instead of the stored level
MuteLevelFull(muted, level) == IF muted THEN 100 ELSE 0

\* what toggleMute assigns to the element's volume
MuteLevel(muted, level) == IF muted THEN level ELSE 0

\* onClick of the mute button, rendered once a station is current
ToggleMute ==
  /\ currentStation # NoStation
  /\ audio' = [audio EXCEPT !.volume = MuteLevel(isMuted, volume)]
  /\ isMuted' = ~isMuted
  /\ volTrail' = LET toggle == IF isMuted THEN "unmute" ELSE "mute"
                 IN  IF Len(volTrail.toggles) < 2
                       THEN [volTrail EXCEPT !.toggles = Append(@, toggle)]
                       ELSE [level |-> volume, toggles |-> <<toggle>>]
  /\ lastEvent' = Event("toggleMute", 0)
  /\ UNCHANGED <<currentStation, isPlaying, volume, playPending, playSettled,
                 selects, audioOps, selLog>>
  /\ UNCHANGED searchVars

\* a slider handler that sets the element's volume whatever the mute flag
HandleVolumeChangeWhileMuted(value) ==
  /\ currentStation # NoStation
  /\ LET newVolume == ParseFloat(value)
     IN  /\ newVolume # volume
         /\ volume' = newVolume
         /\ audio' = [audio EXCEPT !.volume = newVolume]
         /\ volTrail' = [level |-> newVolume, toggles |-> <<>>]
  /\ lastEvent' = Event("volume", 0)
  /\ UNCHANGED <<currentStation, isPlaying, isMuted, playPending, playSettled,
                 selects, audioOps, selLog>>
  /\ UNCHANGED searchVars

\* onChange of the volume slider, rendered once a station is current
HandleVolumeChange(value) ==
  /\ currentStation # NoStation
  /\ LET newVolume == ParseFloat(value)
     IN  /\ newVolume # volume
         /\ volume' = newVolume
         /\ audio' = IF ~isMuted THEN [audio EXCEPT !.volume = newVolume] ELSE audio
         /\ volTrail' = [level |-> newVolume, toggles |-> <<>>]
  /\ lastEvent' = Event("volume", 0)
  /\ UNCHANGED <<currentStation, isPlaying, isMuted, playPending, playSettled,
                 selects, audioOps, selLog>>
  /\ UNCHANGED searchVars

\* ------------------------------------------------------------------ specifications
\* the state after the first render: the useState initial values, the
\* startup fetch issued by the mount effect, an untouched <audio> element
Init ==
  /\ stations = <<>>
  /\ allStations = <<>>
  /\ currentStation = NoStation
  /\ isPlaying = FALSE
  /\ isLoading = TRUE
  /\ volume = 70
  /\ isMuted = FALSE
  /\ searchTerm = <<>>
  /\ isSearching = FALSE
  /\ audio = [src |-> <<>>, paused |-> TRUE, phase |-> "empty", volume |-> 100]
  /\ playPending = FALSE
  /\ playSettled = <<>>
  /\ fetchState = "pending"
  /\ timers = {}
  /\ timeoutId = NoTimer
  /\ requests = {}
  /\ issued = 0
  /\ typedCount = 0
  /\ selects = 0
  /\ lastEvent = Event("mount", 0)
  /\ burstLen = 0
  /\ lastTyped = <<>>
  /\ evals = <<>>
  /\ reArmed = FALSE
  /\ cancelled = 0
  /\ resLog = <<>>
  /\ audioOps = <<>>
  /\ selLog = <<>>
  /\ volTrail = [level |-> 70, toggles |-> <<>>]

CatalogNext ==
  \/ FetchStationsDone
  \/ FetchStationsFails

SearchNext ==
  \/ \E q \in Queries : SetSearchTerm(q)
  \/ \E t \in timers : TimerFires(t)
  \/ \E r \in requests, data \in ServerResults : SearchResponds(r, data)
  \/ \E r \in requests : SearchFails(r)

PlaybackNext ==
  \/ \E station \in Range(stations) : PlayStation(station)
  \/ PlayContinues
  \/ AudioCanPlay
  \/ AudioError
  \/ AudioEnded
  \/ ToggleMute
  \/ \E value \in SliderValues : HandleVolumeChange(value)

Next == CatalogNext \/ SearchNext \/ PlaybackNext

\* the whole component
Spec == Init /\ [][Next]_vars

\* the catalog and the search orchestration, no station ever clicked
SearchSpec == Init /\ [][CatalogNext \/ SearchNext]_vars

\* a session that uses the search input or the play buttons, not both
SessionNext ==
  \/ CatalogNext
  \/ selects = 0 /\ SearchNext
  \/ typedCount = 0 /\ PlaybackNext

SessionSpec == Init /\ [][SessionNext]_vars

\* the search orchestration with its scheduling: a timer that stays armed
\* runs its callback, and a fetch that was issued settles
FairSearchSpec ==
  /\ SearchSpec
  /\ WF_vars(\E t \in timers : TimerFires(t))
  /\ WF_vars(\E r \in requests :
               \/ SearchFails(r)
               \/ \E data \in ServerResults : SearchResponds(r, data))

\* the catalog and the playback session, the search input left empty
PlaybackSpec == Init /\ [][CatalogNext \/ PlaybackNext]_vars

\* ------------------------------------------------------------------ claims
\* the request whose delivery was the last event
LastCall == resLog[lastEvent.call]

\* C1: once the responses to an older request (for q1) and to a newer request
\* (for q2) have both been delivered, in whichever order, the displayed list
\* is the result of the newer request.
C1_LatestQueryDisplayed ==
  ( /\ lastEvent.op \in {"searchResponse", "searchFailure"}
    /\ issued = 2
    /\ requests = {}
    /\ resLog[1].query # resLog[2].query )
  => stations = resLog[2].data

\* C2: the element is never made to load a new source, nor started, while it
\* is active: every playStation that sets the source has paused before; and
\* whatever is active is the one stream of the current station.
C2_ReleaseBeforeAcquire ==
  /\ \A i \in DOMAIN audioOps :
       /\ audioOps[i].op \in {"src", "play"} => ~audioOps[i].active
       /\ audioOps[i].op = "src" => \E j \in 1..(i - 1) : audioOps[j].op = "pause"
  /\ Active(audio) => audio.src = ProxyUrl(currentStation.url)

\* C2 witness: B has just been selected while the element was active with A
C2_Witness ==
  /\ lastEvent.op = "select"
  /\ Len(selLog) >= 2
  /\ selLog[Len(selLog) - 1] = "A"
  /\ selLog[Len(selLog)] = "B"
  /\ audioOps[1] = [op |-> "pause", active |-> TRUE]
  /\ currentStation = StationB
  /\ Active(audio)
  /\ audio.src = ProxyUrl(StationB.url)

\* C3 (as claimed): a burst of non-blank setQuery calls, each arriving before
\* the timer of the previous one fires, gets exactly one search request, and
\* it carries the text of the last call.
C3_ExactlyOneEvaluation ==
  burstLen >= 1 =>
    /\ Len(evals) <= 1
    /\ \A i \in DOMAIN evals : evals[i] = lastTyped
    /\ (timers = {} => Len(evals) = 1)

\* C3 (amended): every request issued for a burst carries the text of its
\* last call, so no intermediate text is evaluated and a cancelled timer
\* issues nothing; once no timer is pending one request has been issued, and
\* a second one, for the same text, only when the catalog arrived after the
\* first and the effect restarted the timer.
C3_DebouncedEvaluation ==
  burstLen >= 1 =>
    /\ \A i \in DOMAIN evals : evals[i] = lastTyped
    /\ Len(evals) <= 2
    /\ (Len(evals) = 2 => reArmed)
    /\ (timers = {} => Len(evals) >= 1)

\* C3 witness: a burst of two or more calls whose timer has fired once, the
\* earlier timers having been cleared
C3_Witness ==
  /\ burstLen >= 2
  /\ cancelled >= 1
  /\ timers = {}
  /\ evals = <<lastTyped>>
  /\ lastEvent.op = "timer"

\* C4: a setQuery with an empty or whitespace-only text leaves no timer
\* pending, displays the full catalog at once and issues no request.
C4_BlankQueryResets ==
  /\ [] ( (lastEvent.op = "setQuery" /\ IsBlank(searchTerm)) =>
            /\ timers = {}
            /\ stations = allStations
            /\ ~isSearching )
  /\ [][ lastEvent'.op = "setQuery" => (requests' = requests /\ issued' = issued) ]_vars

\* C4 witness: the second call, a blank one, has cleared the pending timer of
\* the first and replaced a non-empty catalog on display
C4_Witness ==
  /\ lastEvent.op = "setQuery"
  /\ IsBlank(searchTerm)
  /\ typedCount = 2
  /\ cancelled = 1
  /\ fetchState = "done"
  /\ timers = {}
  /\ stations = CatalogData

\* no output event and no failure has disturbed the session so far
Undisturbed == audio.phase \notin {"error", "ended"} /\ playSettled = <<>>

\* C5: from Idle, select(A) three times, nothing having failed or ended,
\* ends in Playing(A), and the third select resumes the held resource
\* without setting the source again.
C5_ResumeNotReacquire ==
  ( /\ selLog = <<"A", "A", "A">>
    /\ lastEvent.op = "select"
    /\ Undisturbed )
  => /\ currentStation = StationA
     /\ isPlaying
     /\ \A i \in DOMAIN audioOps : audioOps[i].op # "src"

\* C6: when the play() of the only select so far has rejected, the session
\* is Idle: no station is current and nothing plays.
C6_FailureLeavesIdle ==
  ( /\ Len(selLog) = 1
    /\ lastEvent.op = "playRejected" )
  => /\ currentStation = NoStation
     /\ ~isPlaying

\* C7: an ended or error event of the element leaves the session Idle: no
\* station is current and nothing plays.
C7_OutputEventLeavesIdle ==
  lastEvent.op \in {"outputEnded", "outputError"}
  => /\ currentStation = NoStation
     /\ ~isPlaying

\* C8: the stored level is the one last set, however often mute was toggled
\* since, and after an unmute the element plays at that level again.
C8_MuteKeepsLevel ==
  /\ volume = volTrail.level
  /\ ( volTrail.toggles # <<>> /\ volTrail.toggles[Len(volTrail.toggles)] = "unmute" )
     => ( ~isMuted /\ audio.volume = volTrail.level )

\* C8 witness: the level was set to 0.4, then muted, then unmuted
C8_Witness ==
  /\ lastEvent.op = "toggleMute"
  /\ volTrail = [level |-> 40, toggles |-> <<"mute", "unmute">>]
  /\ volume = 40
  /\ audio.volume = 40

\* C9: when a search request fails, the displayed list becomes the local
\* filter of the full catalog for the request's query.
C9_FailureFiltersCatalog ==
  lastEvent.op = "searchFailure"
  => stations = LocalFilter(allStations, LastCall.query)

\* C10: when a request for a frequency query fails (the catalog being the
\* one its performSearch saw), the displayed list holds exactly the
\* stations whose name contains the numeric portion of the query.
C10_FrequencyFallback ==
  ( /\ lastEvent.op = "searchFailure"
    /\ LastCall.all = allStations
    /\ FrequencyOf(LastCall.query) # NoMatch )
  => stations = filteredStations(allStations, LastCall.query)

\* the characters encodeURIComponent never leaves unescaped in a URL
ReservedChars == {":", "/", " "}

\* C11: the source of the element is unset, or it is the proxy address of
\* the current station: the backend's /api/stream/ followed by the escaped
\* stream URL; it is no station's own stream URL.
C11_SourceIsProxyOfCurrent ==
  audio.src # <<>> =>
    /\ currentStation # NoStation
    /\ Len(audio.src) = 2 + Len(currentStation.url)
    /\ SubSeq(audio.src, 1, 2) = <<"http://localhost:8001", "/api/stream/">>
    /\ \A i \in DOMAIN currentStation.url :
         LET c == currentStation.url[i]
             e == audio.src[2 + i]
         IN  /\ e \notin ReservedChars
             /\ c \notin ReservedChars => e = c
             /\ c = ":" => e = "%3A"
             /\ c = "/" => e = "%2F"
    /\ \A st \in {StationA, StationB, StationC} : audio.src # st.url

\* C11 witness: after a switch from A to B the element holds B's proxy address
C11_Witness ==
  /\ selLog = <<"A", "B">>
  /\ currentStation = StationB
  /\ audio.src = <<"http://localhost:8001", "/api/stream/",
                   "h", "%3A", "%2F", "b">>

\* C12: a playStation call begins only when the acquisition of every earlier
\* call has fully resolved: no play() promise is pending and no continuation
\* of an earlier call is still to run.
C12_SelectsDoNotOverlap ==
  [][ (selLog = <<"A">> /\ selLog' = <<"A", "B">>)
        => (~playPending /\ playSettled = <<>>) ]_vars

\* C13: when select(B) has superseded the pending acquisition of select(A)
\* and A's continuation has run on its rejection, B's own acquisition not
\* having failed, the session is still Playing(B).
C13_SupersededLeavesState ==
  ( /\ selLog = <<"A", "B">>
    /\ lastEvent.op = "playRejected"
    /\ Active(audio) )
  => /\ currentStation = StationB
     /\ isPlaying

\* C14 (as claimed): once the startup fetch has failed, the catalog and the
\* displayed list are empty.
C14_ListsStayEmpty ==
  fetchState = "failed" => (allStations = <<>> /\ stations = <<>>)

\* C14 (amended): once the startup fetch has failed the catalog is empty and stays so,
\* the loading phase is over, the displayed list is empty unless a search
\* response has filled it, and the fetch is never pending again.
C14_FetchFailureIsFinal ==
  /\ [] ( fetchState = "failed" =>
            /\ allStations = <<>>
            /\ ~isLoading
            /\ ( (\A c \in DOMAIN resLog : resLog[c].data = <<>>) => stations = <<>> ) )
  /\ [][ fetchState # "pending" => fetchState' = fetchState ]_vars
  /\ [][ (fetchState = "pending" /\ fetchState' = "failed")
          => (stations' = stations /\ allStations' = allStations) ]_vars

\* C14 witness: the fetch has failed, and a later search has fallen back to
\* the empty catalog
C14_Witness ==
  /\ fetchState = "failed"
  /\ lastEvent.op = "searchFailure"
  /\ ~IsBlank(searchTerm)
  /\ stations = <<>>
  /\ ~isLoading

\* C15: when B has been selected after A and B's play() has resolved, every
\* continuation having run and the element not having failed or ended, the
\* session is Playing(B) and the element's source is B's.
C15_SwitchEndsPlaying ==
  ( /\ selLog = <<"A", "B">>
    /\ lastEvent.op = "playResolved"
    /\ playSettled = <<>>
    /\ Active(audio) )
  => /\ currentStation = StationB
     /\ isPlaying
     /\ audio.src = ProxyUrl(StationB.url)

\* C16: every playStation that sets a source sets the element's volume
\* between the source and play(); and once a station is current the
\* element's volume is 0 when muted and the stored volume otherwise.
C16_LevelFollowsSession ==
  /\ \A i \in DOMAIN audioOps :
       audioOps[i].op = "src" =>
         \E j, k \in DOMAIN audioOps :
           /\ i < j /\ j < k
           /\ audioOps[j].op = "volume"
           /\ audioOps[k].op = "play"
           /\ \A l \in (i + 1)..(k - 1) : audioOps[l].op # "play"
  /\ currentStation # NoStation
       => audio.volume = (IF isMuted THEN 0 ELSE volume)

\* C16 witness: B has just been selected in a muted session whose stored
\* volume was changed while A was current
C16_Witness ==
  /\ lastEvent.op = "select"
  /\ selLog = <<"A", "B">>
  /\ currentStation = StationB
  /\ isMuted
  /\ volume = 40
  /\ audio.volume = 0
  /\ \E i \in DOMAIN audioOps : audioOps[i].op = "volume"

\* C17: when the response or the failure of a request arrives while the
\* query is blank, the request having been issued for an earlier non-blank
\* query, the displayed list is still the full catalog.
C17_ClearedQueryDiscardsResult ==
  ( /\ lastEvent.op \in {"searchResponse", "searchFailure"}
    /\ IsBlank(searchTerm)
    /\ ~IsBlank(LastCall.query) )
  => stations = allStations

\* C18 (as claimed): once the result of a request issued for the unchanged
\* query has been displayed, no timer is pending and no search is marked
\* as in progress.
C18_SettledAfterResult ==
  ( /\ lastEvent.op \in {"searchResponse", "searchFailure"}
    /\ evals # <<>>
    /\ lastEvent.call > issued - Len(evals)
    /\ LastCall.query = searchTerm )
  => /\ timers = {}
     /\ ~isSearching

\* C18 (amended): in the end no request is in flight, no search is marked
\* as in progress and no timer is pending (short of the bound on requests);
\* a timer goes away only when the query changes, when the catalog arrives
\* and the effect arms another, or when it fires and issues the request for
\* the current query; a request goes away only by displaying the server's
\* stations or the local filter result.
C18_SearchSettles ==
  /\ [][ \A t \in timers \ timers' :
           \/ searchTerm' # searchTerm
           \/ allStations' # allStations /\ timers' # {}
           \/ \E r \in requests' \ requests :
                r.query = t.query /\ r.query = searchTerm ]_vars
  /\ [][ \A r \in requests \ requests' :
           stations' \in ServerResults \cup {LocalFilter(r.all, r.query)} ]_vars
  /\ <>[] ( /\ requests = {}
            /\ ~isSearching
            /\ (timers = {} \/ issued = MaxSearches) )

\* C18 witness: the query was searched, the catalog arrived and restarted
\* the timer, the second request failed over to the local filter, and
\* nothing is pending any more
C18_Witness ==
  /\ lastEvent.op = "searchFailure"
  /\ reArmed
  /\ evals = <<searchTerm, searchTerm>>
  /\ stations = LocalFilter(allStations, searchTerm)
  /\ stations # <<>>
  /\ requests = {}
  /\ timers = {}
  /\ ~isSearching

\* C19: once the startup fetch has stored the catalog, no step changes it.
C19_CatalogReadOnly ==
  [][ fetchState = "done" => allStations' = allStations ]_vars

\* C19 witness: with the catalog stored, a search response has changed the
\* displayed list and left the catalog as fetched
C19_Witness ==
  /\ fetchState = "done"
  /\ lastEvent.op = "searchResponse"
  /\ LastCall.all = CatalogData
  /\ stations = <<StationC, StationA>>
  /\ allStations = CatalogData

\* C20: when a request has just been answered, the displayed list is the
\* response's station sequence, in the response's order, and nothing else.
C20_ResponseReplacesList ==
  lastEvent.op = "searchResponse" =>
    /\ stations = LastCall.data
    /\ LastCall.data \in ServerResults

\* C20 witness: the catalog [A, B] was displayed when the only request, for
\* the current query, was answered with [C, A]: B is gone, C comes first
C20_Witness ==
  /\ lastEvent.op = "searchResponse"
  /\ issued = 1
  /\ timers = {}
  /\ LastCall.query = searchTerm
  /\ LastCall.all = <<StationA, StationB>>
  /\ stations = <<StationC, StationA>>

\* C21: once every continuation has run and no play() promise is pending,
\* the session reports playing exactly when the element is active with the
\* source of the current station.
C21_StateAgreesWithElement ==
  ( playSettled = <<>> /\ ~playPending )
  => ( isPlaying <=> ( /\ currentStation # NoStation
                       /\ Active(audio)
                       /\ audio.src = ProxyUrl(currentStation.url) ) )

\* C22: a change of the stored volume while muted leaves the element, the
\* mute flag and the playback state as they are; while muted the element's
\* volume is 0; and an unmute sets the element's volume to the level the
\* slider last reported.
C22_MutedVolumeChange ==
  /\ [][ (isMuted /\ volume' # volume)
          => /\ audio' = audio
             /\ isMuted' = isMuted
             /\ currentStation' = currentStation
             /\ isPlaying' = isPlaying ]_vars
  /\ [] ( (isMuted /\ currentStation # NoStation) => audio.volume = 0 )
  /\ [][ (isMuted /\ ~isMuted')
          => /\ audio'.volume = volTrail'.level
             /\ audio'.volume = volume ]_vars

\* C22 witness: muted, the slider moved to 0.4, then unmuted: the element
\* plays at 0.4
C22_Witness ==
  /\ lastEvent.op = "toggleMute"
  /\ ~isMuted
  /\ volTrail = [level |-> 40, toggles |-> <<"unmute">>]
  /\ volume = 40
  /\ audio.volume = 40

\* C23: when the startup fetch completes while the query is non-blank and
\* the result of the request for that query is displayed, the displayed
\* list stays as it is.
C23_CatalogKeepsSearchResult ==
  [][ ( /\ fetchState = "pending" /\ fetchState' = "done"
        /\ ~IsBlank(searchTerm)
        /\ issued >= 1 /\ requests = {}
        /\ resLog[issued].query = searchTerm
        /\ stations = resLog[issued].data
        /\ stations # <<>> )
      => stations' = stations ]_vars

====
